---- MODULE Spec2Model ----
(***************************************************************************)
(* A model of the Deno function runner (package denorunner): the           *)
(* constructor NewDenoFunctionInstance, Close, Invoke, the exit-waiter     *)
(* goroutine, and the JSON conversions Invoke applies to the event and to  *)
(* the response.                                                           *)
(***************************************************************************)
EXTENDS Integers, Sequences, FiniteSets, TLC

\* ------------------------------------------------------------------ bounds
NInst == 2
NCallers == 2
MaxTime == 2
\* how many ports FindFreePort draws from (10000 in util.go)
PortWindow == 3
\* how many bytes the child writes to each of its output streams
MaxBytes == 2

Insts == 1..NInst
Callers == 1..NCallers

\* http.StatusOK, the one status Invoke accepts
StatusOK == 200

\* ------------------------------------------------------------ JSON values
\* The text on the wire, as the tree of the JSON value it spells.
JNull == [t |-> "null", v |-> 0]
JBool(b) == [t |-> "bool", v |-> b]
JNum(n) == [t |-> "num", v |-> n]
JStr(s) == [t |-> "str", v |-> s]
JArr(s) == [t |-> "arr", v |-> s]
JObj(f) == [t |-> "obj", v |-> f]
\* a body that is not JSON text (empty, truncated, HTML, ...)
NotJson == [t |-> "invalid", v |-> 0]

\* ------------------------------------------------------------ Go values
\* What an interface{} can hold: the event the caller passes and the value
\* the decoder builds.
GNil == [t |-> "nil", v |-> 0]
GBool(b) == [t |-> "bool", v |-> b]
GInt(n) == [t |-> "int", v |-> n]
GFloat(n) == [t |-> "float64", v |-> n]
GString(s) == [t |-> "string", v |-> s]
GSlice(s) == [t |-> "slice", v |-> s]
GMap(f) == [t |-> "map", v |-> f]
GStruct(f) == [t |-> "struct", v |-> f]

\* json.Marshal of a serializable value
RECURSIVE Marshal(_)
Marshal(g) ==
    CASE g.t = "nil" -> JNull
      [] g.t = "bool" -> JBool(g.v)
      [] g.t = "int" -> JNum(g.v)
      [] g.t = "float64" -> JNum(g.v)
      [] g.t = "string" -> JStr(g.v)
      [] g.t = "slice" -> JArr([k \in DOMAIN g.v |-> Marshal(g.v[k])])
      [] g.t = "map" -> JObj([k \in DOMAIN g.v |-> Marshal(g.v[k])])
      [] g.t = "struct" -> JObj([k \in DOMAIN g.v |-> Marshal(g.v[k])])

\* MustJsonString: the JSON text of v
MustJsonString(g) == Marshal(g)

\* json.Decoder.Decode into an interface{}: numbers become float64, objects
\* map[string]interface{}, arrays []interface{}
RECURSIVE Decode(_)
Decode(j) ==
    CASE j.t = "null" -> GNil
      [] j.t = "bool" -> GBool(j.v)
      [] j.t = "num" -> GFloat(j.v)
      [] j.t = "str" -> GString(j.v)
      [] j.t = "arr" -> GSlice([k \in DOMAIN j.v |-> Decode(j.v[k])])
      [] j.t = "obj" -> GMap([k \in DOMAIN j.v |-> Decode(j.v[k])])

\* a field of jsError accepts a JSON string or null
StringField(j) == j.t \in {"str", "null"}

\* json.Unmarshal of the nested error value into jsError{Message, Stack}:
\* null leaves the struct empty, an object fills the fields it has, any
\* other value (or a field that is not a string) is an error
UnmarshalOk(j) ==
    \/ j.t = "null"
    \/ /\ j.t = "obj"
       /\ \A k \in DOMAIN j.v \cap {"message", "stack"} : StringField(j.v[k])

JsField(j, k) ==
    IF j.t = "obj" /\ k \in DOMAIN j.v /\ j.v[k].t = "str" THEN j.v[k].v ELSE ""

\* (a status test that lets every status below 400 through)
StatusAcceptedLoose(status) == status < 400

\* the status test of Invoke
StatusAccepted(status) == status = StatusOK

\* (a decoder whose target is map[string]interface{}: only objects decode)
ClassifyObjectsOnly(status, body) ==
    IF status # StatusOK THEN [kind |-> "httpError", val |-> body]
    ELSE IF body.t # "obj" THEN [kind |-> "decodeError", val |-> body]
    ELSE IF "error" \in DOMAIN body.v THEN [kind |-> "runtimeErrorRaw", val |-> body.v["error"]]
    ELSE [kind |-> "ok", val |-> Decode(body)]

\* (an Invoke that returns whatever decodes, `error` key or not)
ClassifyErrorsAsResults(status, body) ==
    IF ~StatusAccepted(status)
    THEN [kind |-> "httpError", val |-> body]
    ELSE IF body.t = "invalid"
    THEN [kind |-> "decodeError", val |-> body]
    ELSE [kind |-> "ok", val |-> Decode(body)]

\* Invoke's classification of a received response
Classify(status, body) ==
    IF ~StatusAccepted(status)
    THEN [kind |-> "httpError", val |-> body]
    ELSE IF body.t = "invalid"
    THEN [kind |-> "decodeError", val |-> body]
    ELSE LET result == Decode(body) IN
         IF result.t = "map" /\ "error" \in DOMAIN result.v
         THEN LET errorObj == MustJsonString(result.v["error"]) IN
              IF UnmarshalOk(errorObj)
              THEN [kind |-> "runtimeError",
                    val |-> [message |-> JsField(errorObj, "message"),
                             stack |-> JsField(errorObj, "stack")]]
              ELSE [kind |-> "runtimeErrorRaw", val |-> errorObj]
         ELSE [kind |-> "ok", val |-> result]

\* ------------------------------------------------------------- the inputs
\* Function sources: "identity" is handle(event){ return event }; "other"
\* stands for every other source (a handler that throws, returns something
\* else, or a server answering with another status).
Codes == {"identity", "other"}

\* newFunctionHash: the SHA-1 digest of the source text, in hex
newFunctionHash(code) == <<"sha1", code>>

\* the function directory of a source: WorkDir/.deno/function-<hash>
DenoDir(code) == <<".deno", "function", newFunctionHash(code)>>

NoDir == <<>>

\* FindFreePort(8000): the base of the ports it draws from, and its failure
BasePort == 8000
NoPort == -1

\* events of the callers
Events ==
    { GStruct([name |-> GString("Pete")]),
      GMap([error |-> GString("x")]) }

\* what a child running another source may answer
Responses ==
    { <<StatusOK, JObj([error |-> JObj([message |-> JStr("boom"), stack |-> JStr("at handle")])])>>,
      <<StatusOK, NotJson>>,
      <<500, JStr("Internal Server Error")>> }

\* events of the conversion specification: every kind of value, and objects
\* with and without an `error` key
ErrorValues ==
    { GNil, GString("x"), GInt(1),
      GMap([message |-> GString("m"), stack |-> GString("s")]),
      GMap([message |-> GInt(1)]) }

JsonEvents ==
    { GNil, GBool(TRUE), GInt(1), GFloat(2), GString("a"),
      GSlice(<<GInt(1), GString("a")>>),
      GSlice(<<GMap([error |-> GNil])>>),
      GStruct([name |-> GString("Pete"), message |-> GString("Hi")]),
      GMap([name |-> GString("Pete")]),
      GMap([errors |-> GString("x")]) }
    \cup { GMap([error |-> v]) : v \in ErrorValues }
    \cup { GStruct([error |-> GString("x"), name |-> GString("Pete")]) }

Statuses == {200, 201, 204, 404, 500}

JsonBodies ==
    { NotJson, JNull, JNum(1), JStr("a"), JArr(<<JNum(1)>>),
      JObj([name |-> JStr("Pete")]),
      JObj([error |-> JObj([message |-> JStr("boom"), stack |-> JStr("at handle")])]),
      JObj([error |-> JNull]),
      JObj([error |-> JNum(1)]),
      JObj([error |-> JObj([message |-> JNum(1)])]) }

JsonResponses == Statuses \X JsonBodies

\* the answer of the function server to one request body
ChildResponses(code, reqBody, R) ==
    IF code = "identity" THEN { <<StatusOK, reqBody>> } ELSE R

\* ------------------------------------------------------------------ state
VARIABLES
    dirs,           \* the directories that exist under WorkDir
    handedOutPorts, \* util.go's process-wide record
    now,            \* the clock time.Now() reads
    ctorPc,         \* where each constructor call is
    ctorResult,     \* what it returned
    code,           \* the source it was given
    ctxDone,        \* the constructor's context is cancelled
    tempDir,        \* inst.tempDir
    listenPort,     \* the port passed to the child
    proc,           \* the child process, as the OS sees it
    listening,      \* the child's server accepts connections
    processState,   \* inst.cmd.ProcessState
    denoExited,     \* inst.denoExited, a channel of capacity 1
    closed,         \* Close has been called on the instance
    runLock,        \* inst.runLock: 0 or the caller holding it
    lastInvoked,    \* inst.lastInvoked
    pc,             \* where each caller's Invoke is
    target,         \* the instance it invokes
    event,          \* its event
    outcome,        \* the kind its last Invoke returned
    result,         \* the value (or error payload) it returned
    resp,           \* the response it received: <<status, body>>
    callTime,       \* the clock when the call was made
    afterClose,     \* the call was made after Close of its instance
    netIO,          \* the call reached the network
    spawns,         \* how many times cmd.Start has started a child
    fpPc,           \* where the running FindFreePort call is
    fpPort,         \* its local port
    iterations,     \* its local iterations
    attempts,       \* how many ports it has examined
    fpResult,       \* what it returned
    busyPorts,      \* the ports net.Listen cannot bind
    returnedPorts,  \* the ports earlier calls returned
    pipe,           \* the text in the child's stdout and stderr pipes
    wrote,          \* everything the child has written to each one
    drainPc,        \* where each log drain is
    sink            \* the messages logCallback has received from each drain

instVars == <<ctorPc, ctorResult, code, ctxDone, tempDir, listenPort, closed>>
procVars == <<proc, listening, processState, denoExited>>
callVars == <<pc, target, event, outcome, result, resp,
              callTime, afterClose, netIO>>
allocVars == <<fpPc, fpPort, iterations, attempts, fpResult, busyPorts, returnedPorts>>
drainVars == <<pipe, wrote, drainPc, sink>>
vars == <<dirs, handedOutPorts, now, instVars, procVars, runLock, lastInvoked, callVars,
          spawns, allocVars, drainVars>>

\* no response received
NoResponse == <<0, NotJson>>

\* how a process ends: by calling exit (with any code) or by a signal
Terminated == {"exited", "signaled"}

\* the port allocator has not been called; the child has written nothing
\* and both log drains read
Streams == {"stdout", "stderr"}
InitSide ==
    /\ fpPc = "idle"
    /\ fpPort = 0
    /\ iterations = 0
    /\ attempts = 0
    /\ fpResult = 0
    /\ busyPorts = {}
    /\ returnedPorts = {}
    /\ pipe = [s \in Streams |-> <<>>]
    /\ wrote = [s \in Streams |-> <<>>]
    /\ drainPc = [s \in Streams |-> "read"]
    /\ sink = [s \in Streams |-> <<>>]

Init ==
    /\ InitSide
    /\ spawns = [i \in Insts |-> 0]
    /\ dirs = {}
    /\ handedOutPorts = {}
    /\ now = 1
    /\ ctorPc = [i \in Insts |-> "idle"]
    /\ ctorResult = [i \in Insts |-> "none"]
    /\ code = [i \in Insts |-> "none"]
    /\ ctxDone = [i \in Insts |-> FALSE]
    /\ tempDir = [i \in Insts |-> NoDir]
    /\ listenPort = [i \in Insts |-> 0]
    /\ proc = [i \in Insts |-> "none"]
    /\ listening = [i \in Insts |-> FALSE]
    /\ processState = [i \in Insts |-> "nil"]
    /\ denoExited = [i \in Insts |-> <<>>]
    /\ closed = [i \in Insts |-> FALSE]
    /\ runLock = [i \in Insts |-> 0]
    /\ lastInvoked = [i \in Insts |-> 0]
    /\ pc = [c \in Callers |-> "idle"]
    /\ target = [c \in Callers |-> 1]
    /\ event = [c \in Callers |-> GNil]
    /\ outcome = [c \in Callers |-> "none"]
    /\ result = [c \in Callers |-> GNil]
    /\ resp = [c \in Callers |-> NoResponse]
    /\ callTime = [c \in Callers |-> 0]
    /\ afterClose = [c \in Callers |-> FALSE]
    /\ netIO = [c \in Callers |-> FALSE]

\* the clock advances
Tick ==
    /\ now < MaxTime
    /\ now' = now + 1
    /\ UNCHANGED <<dirs, handedOutPorts, instVars, procVars, runLock, lastInvoked, callVars,
                   spawns, allocVars, drainVars>>

\* --------------------------------------------------------- the constructor
\* os.MkdirAll, copyDenoFiles and os.WriteFile of function.js: the directory
\* is made (or found) and the files are written, or one of them fails
CtorMaterialize(i, src, fs) ==
    /\ ctorPc[i] = "idle"
    /\ code' = [code EXCEPT ![i] = src]
    /\ IF fs = "mkdirErr"
       THEN /\ ctorPc' = [ctorPc EXCEPT ![i] = "done"]
            /\ ctorResult' = [ctorResult EXCEPT ![i] = "errMkdir"]
            /\ UNCHANGED <<dirs, tempDir>>
       ELSE /\ dirs' = dirs \cup {DenoDir(src)}
            /\ tempDir' = [tempDir EXCEPT ![i] = DenoDir(src)]
            /\ IF fs = "writeErr"
               THEN /\ ctorPc' = [ctorPc EXCEPT ![i] = "done"]
                    /\ ctorResult' = [ctorResult EXCEPT ![i] = "errWrite"]
               ELSE /\ ctorPc' = [ctorPc EXCEPT ![i] = "materialized"]
                    /\ UNCHANGED ctorResult
    /\ UNCHANGED <<handedOutPorts, now, spawns, allocVars, drainVars, ctxDone, listenPort, closed, procVars,
                   runLock, lastInvoked, callVars>>

\* What FindFreePort can return to the i-th constructor call: -1, or a port
\* that it has not handed out before. Which of the free ports it draws makes
\* no difference to an instance, so the i-th call's port is BasePort + i.
FreshPort(i) == BasePort + i
FindFreePort(i) == {p \in {FreshPort(i)} : p \notin handedOutPorts} \cup {NoPort}

\* FindFreePort, exec.Command and cmd.Start: with a deno path that cannot be
\* started the constructor returns the error; otherwise the child runs and
\* the exit waiter and the log drains are started
CtorSpawn(i, port, pathOk) ==
    /\ ctorPc[i] = "materialized"
    /\ port \in FindFreePort(i)
    /\ listenPort' = [listenPort EXCEPT ![i] = port]
    /\ handedOutPorts' = IF port = NoPort THEN handedOutPorts ELSE handedOutPorts \cup {port}
    /\ IF pathOk
       THEN /\ proc' = [proc EXCEPT ![i] = "running"]
            /\ spawns' = [spawns EXCEPT ![i] = @ + 1]
            /\ ctorPc' = [ctorPc EXCEPT ![i] = "wait"]
            /\ UNCHANGED ctorResult
       ELSE /\ ctorPc' = [ctorPc EXCEPT ![i] = "done"]
            /\ ctorResult' = [ctorResult EXCEPT ![i] = "errSpawn"]
            /\ UNCHANGED <<proc, spawns>>
    /\ UNCHANGED <<dirs, now, allocVars, drainVars, code, ctxDone, tempDir, closed, listening,
                   processState, denoExited, runLock, lastInvoked, callVars>>

\* the caller cancels the constructor's context
CtxCancel(i) ==
    /\ ctorPc[i] \in {"materialized", "wait"}
    /\ ~ctxDone[i]
    /\ ctxDone' = [ctxDone EXCEPT ![i] = TRUE]
    /\ UNCHANGED <<dirs, handedOutPorts, now, spawns, allocVars, drainVars, ctorPc, ctorResult, code, tempDir,
                   listenPort, closed, procVars, runLock, lastInvoked, callVars>>

\* Process.Kill: SIGKILL to a child that still runs; nothing otherwise
Kill(i) == [proc EXCEPT ![i] = IF @ = "running" THEN "signaled" ELSE @]

\* (a Close that leaves the directory)
RemoveNothing(i) == dirs

\* os.RemoveAll(inst.tempDir), on a file system that lets it succeed
RemoveAll(i) == dirs \ {tempDir[i]}

\* some process accepts connections on the port
PortOpen(p) == \E j \in Insts : listenPort[j] = p /\ proc[j] = "running" /\ listening[j]

\* net.Dial("tcp", localhost:listenPort) succeeds
DialOk(i) == PortOpen(listenPort[i])

\* (a constructor that registers no rollback)
RollbackNever(i, everythingOk) == UNCHANGED <<proc, listening, dirs>>

\* the deferred function of the constructor: Close unless everythingOk
Rollback(i, everythingOk) ==
    IF ~everythingOk /\ proc[i] # "none"
    THEN /\ proc' = Kill(i)
         /\ listening' = [listening EXCEPT ![i] = FALSE]
         /\ dirs' = RemoveAll(i)
    ELSE UNCHANGED <<proc, listening, dirs>>

\* (a waitLoop that dials before it looks at the context and the channel)
CtorPollDialFirst(i) ==
    /\ ctorPc[i] = "wait"
    /\ \/ /\ DialOk(i)
          /\ ctorResult' = [ctorResult EXCEPT ![i] = "ok"]
          /\ Rollback(i, TRUE)
          /\ UNCHANGED denoExited
       \/ /\ ~DialOk(i)
          /\ ctxDone[i]
          /\ ctorResult' = [ctorResult EXCEPT ![i] = "errCtx"]
          /\ Rollback(i, FALSE)
          /\ UNCHANGED denoExited
       \/ /\ ~DialOk(i)
          /\ denoExited[i] # <<>>
          /\ denoExited' = [denoExited EXCEPT ![i] = Tail(@)]
          /\ ctorResult' = [ctorResult EXCEPT ![i] = "errExit"]
          /\ Rollback(i, FALSE)
    /\ ctorPc' = [ctorPc EXCEPT ![i] = "done"]
    /\ UNCHANGED <<handedOutPorts, now, spawns, allocVars, drainVars, code, ctxDone,
                   tempDir, listenPort, closed, processState, runLock, lastInvoked,
                   callVars>>

\* one iteration of waitLoop that leaves the loop. The select takes a ready
\* case (any one when both are ready); with none ready the default runs and
\* the dial decides. A failed dial sleeps and repeats: no change of state.
CtorPoll(i) ==
    /\ ctorPc[i] = "wait"
    /\ \/ /\ ctxDone[i]
          /\ ctorResult' = [ctorResult EXCEPT ![i] = "errCtx"]
          /\ Rollback(i, FALSE)
          /\ UNCHANGED denoExited
       \/ /\ denoExited[i] # <<>>
          /\ denoExited' = [denoExited EXCEPT ![i] = Tail(@)]
          /\ ctorResult' = [ctorResult EXCEPT ![i] = "errExit"]
          /\ Rollback(i, FALSE)
       \/ /\ ~ctxDone[i]
          /\ denoExited[i] = <<>>
          /\ DialOk(i)
          /\ ctorResult' = [ctorResult EXCEPT ![i] = "ok"]
          /\ Rollback(i, TRUE)
          /\ UNCHANGED denoExited
    /\ ctorPc' = [ctorPc EXCEPT ![i] = "done"]
    /\ UNCHANGED <<handedOutPorts, now, spawns, allocVars, drainVars, code, ctxDone, tempDir, listenPort, closed,
                   processState, runLock, lastInvoked, callVars>>

\* ------------------------------------------------------------- the child
\* the function server binds its port and starts to accept
ChildListen(i) ==
    /\ proc[i] = "running"
    /\ ~listening[i]
    /\ listenPort[i] # NoPort
    /\ listening' = [listening EXCEPT ![i] = TRUE]
    /\ UNCHANGED <<dirs, handedOutPorts, now, spawns, allocVars, drainVars, instVars, proc, processState,
                   denoExited, runLock, lastInvoked, callVars>>

\* the child terminates: it exits (normally or with an error code), or a
\* signal from outside kills it
ChildExit(i, how) ==
    /\ proc[i] = "running"
    /\ how \in Terminated
    /\ proc' = [proc EXCEPT ![i] = how]
    /\ listening' = [listening EXCEPT ![i] = FALSE]
    /\ UNCHANGED <<dirs, handedOutPorts, now, spawns, allocVars, drainVars, instVars, processState, denoExited,
                   runLock, lastInvoked, callVars>>

\* (an exit waiter that starts the child again)
ExitWaiterRespawn(i) ==
    /\ proc[i] \in Terminated
    /\ processState[i] = "nil"
    /\ processState' = [processState EXCEPT ![i] = proc[i]]
    /\ denoExited' = [denoExited EXCEPT ![i] = Append(@, proc[i])]
    /\ proc' = [proc EXCEPT ![i] = "running"]
    /\ spawns' = [spawns EXCEPT ![i] = @ + 1]
    /\ UNCHANGED <<dirs, handedOutPorts, now, allocVars, drainVars, instVars, listening,
                   runLock, lastInvoked, callVars>>

\* (an exit channel without a buffer, which takes nothing by itself)
HasRoomUnbuffered(ch) == Len(ch) < 0

\* a send on a channel made by make(chan error, 1) does not block
HasRoom(ch) == Len(ch) < 1

\* the exit waiter: cmd.Wait returns, having set cmd.ProcessState, and its
\* result is sent on the buffered channel, which takes it when it has room
ExitWaiter(i) ==
    /\ proc[i] \in Terminated
    /\ processState[i] = "nil"
    /\ HasRoom(denoExited[i])
    /\ processState' = [processState EXCEPT ![i] = proc[i]]
    /\ denoExited' = [denoExited EXCEPT ![i] = Append(@, proc[i])]
    /\ UNCHANGED <<dirs, handedOutPorts, now, spawns, allocVars, drainVars, instVars, proc, listening,
                   runLock, lastInvoked, callVars>>

\* a caller receives from the channel DidExit() gave it
DidExitRecv(i) ==
    /\ ctorResult[i] = "ok"
    /\ denoExited[i] # <<>>
    /\ denoExited' = [denoExited EXCEPT ![i] = Tail(@)]
    /\ UNCHANGED <<dirs, handedOutPorts, now, spawns, allocVars, drainVars, instVars,
                   proc, listening, processState, runLock, lastInvoked, callVars>>

\* ------------------------------------------------------------------ Close
\* (a Close that waits for runLock)
CloseUnderLock(i) ==
    /\ ctorResult[i] = "ok"
    /\ runLock[i] = 0
    /\ proc' = Kill(i)
    /\ listening' = [listening EXCEPT ![i] = FALSE]
    /\ dirs' = RemoveAll(i)
    /\ closed' = [closed EXCEPT ![i] = TRUE]
    /\ UNCHANGED <<handedOutPorts, now, spawns, allocVars, drainVars, ctorPc, ctorResult,
                   code, ctxDone, tempDir, listenPort, processState, denoExited, runLock,
                   lastInvoked, callVars>>

\* Close: the child is killed if it runs and the directory is removed; no
\* lock is taken
Close(i) ==
    /\ ctorResult[i] = "ok"
    /\ proc' = Kill(i)
    /\ listening' = [listening EXCEPT ![i] = FALSE]
    /\ dirs' = RemoveAll(i)
    /\ closed' = [closed EXCEPT ![i] = TRUE]
    /\ UNCHANGED <<handedOutPorts, now, spawns, allocVars, drainVars, ctorPc, ctorResult, code, ctxDone, tempDir,
                   listenPort, processState, denoExited, runLock, lastInvoked, callVars>>

\* ----------------------------------------------------------------- Invoke
InvokeVarsKept == <<dirs, handedOutPorts, now, instVars, procVars,
                    spawns, allocVars, drainVars>>

\* a caller calls Invoke on an instance the constructor returned
InvokeCall(c, i, e) ==
    /\ pc[c] = "idle"
    /\ ctorResult[i] = "ok"
    /\ pc' = [pc EXCEPT ![c] = "lock"]
    /\ target' = [target EXCEPT ![c] = i]
    /\ event' = [event EXCEPT ![c] = e]
    /\ outcome' = [outcome EXCEPT ![c] = "none"]
    /\ result' = [result EXCEPT ![c] = GNil]
    /\ resp' = [resp EXCEPT ![c] = NoResponse]
    /\ callTime' = [callTime EXCEPT ![c] = now]
    /\ afterClose' = [afterClose EXCEPT ![c] = closed[i]]
    /\ netIO' = [netIO EXCEPT ![c] = FALSE]
    /\ UNCHANGED <<InvokeVarsKept, runLock, lastInvoked>>

\* (a Lock that does not exclude)
LockFreeAlways(i) == TRUE

\* runLock.Lock() can return: nobody holds the mutex
LockFree(i) == runLock[i] = 0

InvokeLock(c) ==
    /\ pc[c] = "lock"
    /\ LockFree(target[c])
    /\ runLock' = [runLock EXCEPT ![target[c]] = c]
    /\ pc' = [pc EXCEPT ![c] = "stamp"]
    /\ UNCHANGED <<InvokeVarsKept, lastInvoked, target, event,
                   outcome, result, resp, callTime, afterClose, netIO>>

\* (the time read before the lock is taken)
StampTimeAtCall(c) == callTime[c]

\* the time.Now() that Invoke stores: read after the lock is taken
StampTime(c) == now

InvokeStamp(c) ==
    /\ pc[c] = "stamp"
    /\ lastInvoked' = [lastInvoked EXCEPT ![target[c]] = StampTime(c)]
    /\ pc' = [pc EXCEPT ![c] = "check"]
    /\ callTime' = [callTime EXCEPT ![c] = 0]
    /\ UNCHANGED <<InvokeVarsKept, runLock, target, event,
                   outcome, result, resp, afterClose, netIO>>

\* (a return path that keeps the mutex)
UnlockLeak(i) == runLock

\* the deferred runLock.Unlock()
Unlock(i) == [runLock EXCEPT ![i] = 0]

\* Invoke returns: the outcome goes to the caller and the deferred unlock runs
Return(c, r) ==
    /\ pc' = [pc EXCEPT ![c] = "returned"]
    /\ outcome' = [outcome EXCEPT ![c] = r.kind]
    /\ result' = [result EXCEPT ![c] = r.val]
    /\ runLock' = Unlock(target[c])

\* ProcessState.Exited(): true of a process that called exit, false of one
\* a signal terminated
Exited(ps) == ps = "exited"

\* the test guarding ProcessExitedError
ProcessExited(i) == processState[i] # "nil" /\ Exited(processState[i])

InvokeCheck(c) ==
    /\ pc[c] = "check"
    /\ IF ProcessExited(target[c])
       THEN Return(c, [kind |-> "processExited", val |-> GNil])
       ELSE /\ pc' = [pc EXCEPT ![c] = "request"]
            /\ UNCHANGED <<outcome, result, runLock>>
    /\ UNCHANGED <<InvokeVarsKept, lastInvoked, target, event, resp,
                   callTime, afterClose, netIO>>

\* http.NewRequestWithContext fails when the caller's context is nil;
\* otherwise Do connects to the server, which takes the request or refuses
\* the connection
InvokeRequest(c, nilCtx) ==
    /\ pc[c] = "request"
    /\ IF nilCtx
       THEN /\ Return(c, [kind |-> "requestError", val |-> GNil])
            /\ UNCHANGED netIO
       ELSE /\ netIO' = [netIO EXCEPT ![c] = TRUE]
            /\ IF PortOpen(listenPort[target[c]])
               THEN /\ pc' = [pc EXCEPT ![c] = "await"]
                    /\ UNCHANGED <<outcome, result, runLock>>
               ELSE Return(c, [kind |-> "transportError", val |-> GNil])
    /\ UNCHANGED <<InvokeVarsKept, lastInvoked, target, event, resp,
                   callTime, afterClose>>

\* the response arrives and is classified
InvokeRecv(c, R) ==
    /\ pc[c] = "await"
    /\ proc[target[c]] = "running"
    /\ \E r \in ChildResponses(code[target[c]], MustJsonString(event[c]), R) :
          /\ resp' = [resp EXCEPT ![c] = r]
          /\ Return(c, Classify(r[1], r[2]))
    /\ UNCHANGED <<InvokeVarsKept, lastInvoked, target, event,
                   callTime, afterClose, netIO>>

\* Do fails in flight: the caller's context is cancelled, or the connection
\* breaks (the child died)
InvokeAbort(c) ==
    /\ pc[c] = "await"
    /\ Return(c, [kind |-> "transportError", val |-> GNil])
    /\ UNCHANGED <<InvokeVarsKept, lastInvoked, target, event, resp,
                   callTime, afterClose, netIO>>

\* the caller has looked at what Invoke returned
InvokeDone(c) ==
    /\ pc[c] = "returned"
    /\ pc' = [pc EXCEPT ![c] = "idle"]
    /\ target' = [target EXCEPT ![c] = 1]
    /\ event' = [event EXCEPT ![c] = GNil]
    /\ outcome' = [outcome EXCEPT ![c] = "none"]
    /\ result' = [result EXCEPT ![c] = GNil]
    /\ resp' = [resp EXCEPT ![c] = NoResponse]
    /\ afterClose' = [afterClose EXCEPT ![c] = FALSE]
    /\ netIO' = [netIO EXCEPT ![c] = FALSE]
    /\ UNCHANGED <<InvokeVarsKept, runLock, lastInvoked, callTime>>

\* ----------------------------------------------------- the port allocator
\* FindFreePort(startPort), as it runs: candidate ports are drawn from
\* startPort + rand.Intn(window)
Ports == BasePort .. (BasePort + PortWindow - 1)

\* the bound of the loop
MaxIterations == 1000

\* rand.Seed, the first draw of port, iterations := 0
FpCall(first) ==
    /\ fpPc = "idle"
    /\ first \in Ports
    /\ fpPc' = "loop"
    /\ fpPort' = first
    /\ iterations' = 0
    /\ attempts' = 0
    /\ fpResult' = 0
    /\ UNCHANGED <<dirs, handedOutPorts, now, instVars, procVars, runLock, lastInvoked,
                   callVars, spawns, busyPorts, returnedPorts, drainVars>>

\* (a record of handed-out ports that is never consulted)
NotHandedOutAlways(p) == TRUE

\* !handedOutPorts[port]
NotHandedOut(p) == p \notin handedOutPorts

\* net.Listen on the port returns no error
Bindable(p) == p \notin busyPorts

\* (a loop that gives up one iteration earlier)
BudgetSpentEarly(n) == n >= MaxIterations

\* iterations > 1000, tested after the increment
BudgetSpent(n) == n > MaxIterations

\* one trip through the loop: the port is examined and returned if it is
\* not handed out and can be bound; otherwise another is drawn, iterations
\* is incremented and the bound is tested
FpProbe(next) ==
    /\ fpPc = "loop"
    /\ next \in Ports
    /\ attempts' = attempts + 1
    /\ IF NotHandedOut(fpPort) /\ Bindable(fpPort)
       THEN /\ handedOutPorts' = handedOutPorts \cup {fpPort}
            /\ fpResult' = fpPort
            /\ fpPc' = "returned"
            /\ UNCHANGED <<fpPort, iterations>>
       ELSE /\ fpPort' = next
            /\ iterations' = iterations + 1
            /\ IF BudgetSpent(iterations')
               THEN fpResult' = NoPort /\ fpPc' = "returned"
               ELSE UNCHANGED <<fpResult, fpPc>>
            /\ UNCHANGED handedOutPorts
    /\ UNCHANGED <<dirs, now, instVars, procVars, runLock, lastInvoked,
                   callVars, spawns, busyPorts, returnedPorts, drainVars>>

\* the caller has the result; the next call can start
FpDone ==
    /\ fpPc = "returned"
    /\ fpPc' = "idle"
    /\ returnedPorts' = IF fpResult = NoPort THEN returnedPorts
                                             ELSE returnedPorts \cup {fpResult}
    /\ fpPort' = 0
    /\ iterations' = 0
    /\ attempts' = 0
    /\ fpResult' = 0
    /\ UNCHANGED <<dirs, handedOutPorts, now, instVars, procVars, runLock, lastInvoked,
                   callVars, spawns, busyPorts, drainVars>>

\* some process of the machine binds a port, or releases one
PortEnv(p) ==
    /\ p \in Ports
    /\ busyPorts' = IF p \in busyPorts THEN busyPorts \ {p} ELSE busyPorts \cup {p}
    /\ UNCHANGED <<dirs, handedOutPorts, now, instVars, procVars, runLock, lastInvoked,
                   callVars, spawns, fpPc, fpPort, iterations, attempts, fpResult,
                   returnedPorts, drainVars>>

\* ---------------------------------------------------------- the log drains
\* The text of the streams of instance 1, byte by byte: a letter or the
\* line feed.
LF == "\n"
Bytes == {"x", LF}

\* the child writes a byte to its stdout or stderr
ChildWrite(s, b) ==
    /\ proc[1] = "running"
    /\ Len(wrote[s]) < MaxBytes
    /\ pipe' = [pipe EXCEPT ![s] = Append(@, b)]
    /\ wrote' = [wrote EXCEPT ![s] = Append(@, b)]
    /\ UNCHANGED <<dirs, handedOutPorts, now, instVars, procVars, runLock, lastInvoked,
                   callVars, spawns, allocVars, drainPc, sink>>

\* the text holds a delimiter
HasLine(txt) == \E k \in 1..Len(txt) : txt[k] = LF

\* the place of the first delimiter
FirstLF(txt) == CHOOSE k \in 1..Len(txt) : txt[k] = LF /\ \A j \in 1..(k - 1) : txt[j] # LF

\* what ReadString('\n') returns with a nil error: the text up to and with
\* the first delimiter
ReadString(txt) == SubSeq(txt, 1, FirstLF(txt))

\* the text after it
AfterLine(txt) == SubSeq(txt, FirstLF(txt) + 1, Len(txt))

\* ReadString returned a line, with a nil error, and callback(line) ran. (A
\* line the reader buffered before the pipe was closed is still returned.)
DrainLine(s) ==
    /\ spawns[1] = 1
    /\ drainPc[s] = "read"
    /\ HasLine(pipe[s])
    /\ sink' = [sink EXCEPT ![s] = Append(@, ReadString(pipe[s]))]
    /\ pipe' = [pipe EXCEPT ![s] = AfterLine(@)]
    /\ UNCHANGED <<dirs, handedOutPorts, now, instVars, procVars, runLock, lastInvoked,
                   callVars, spawns, allocVars, wrote, drainPc>>

\* the read fails: cmd.Wait, having seen the child exit, has closed the
\* parent's end of the pipe
ReadClosed == processState[1] # "nil"

\* the read meets the end of the stream: the child, the only writer, has
\* terminated and what is left holds no delimiter
ReadEOF(s) == proc[1] \in Terminated /\ ~HasLine(pipe[s])

\* ReadString returned an error, with whatever text it had: the loop breaks
\* and the text is not passed on
DrainStop(s) ==
    /\ spawns[1] = 1
    /\ drainPc[s] = "read"
    /\ ReadClosed \/ ReadEOF(s)
    /\ drainPc' = [drainPc EXCEPT ![s] = "done"]
    /\ UNCHANGED <<dirs, handedOutPorts, now, instVars, procVars, runLock, lastInvoked,
                   callVars, spawns, allocVars, pipe, wrote, sink>>

\* --------------------------------------------------------- specifications
FsOutcomes == {"ok", "mkdirErr", "writeErr"}

\* Spec: the lifecycle of every instance: constructor, child, exit waiter
\* and Close.
Next ==
    \/ \E i \in Insts, src \in Codes, fs \in FsOutcomes : CtorMaterialize(i, src, fs)
    \/ \E i \in Insts : \E port \in FindFreePort(i), pathOk \in BOOLEAN : CtorSpawn(i, port, pathOk)
    \/ \E i \in Insts : CtxCancel(i)
    \/ \E i \in Insts : CtorPoll(i)
    \/ \E i \in Insts : ChildListen(i)
    \/ \E i \in Insts, how \in Terminated : ChildExit(i, how)
    \/ \E i \in Insts : ExitWaiter(i)
    \/ \E i \in Insts : Close(i)

Spec == Init /\ [][Next]_vars

\* The state in which the constructor has just returned instance 1 for the
\* source src: directory made, child running and accepting on its port.
Booted(src) ==
    /\ InitSide
    /\ spawns = [i \in Insts |-> IF i = 1 THEN 1 ELSE 0]
    /\ dirs = {DenoDir(src)}
    /\ handedOutPorts = {FreshPort(1)}
    /\ now = 1
    /\ ctorPc = [i \in Insts |-> IF i = 1 THEN "done" ELSE "idle"]
    /\ ctorResult = [i \in Insts |-> IF i = 1 THEN "ok" ELSE "none"]
    /\ code = [i \in Insts |-> IF i = 1 THEN src ELSE "none"]
    /\ ctxDone = [i \in Insts |-> FALSE]
    /\ tempDir = [i \in Insts |-> IF i = 1 THEN DenoDir(src) ELSE NoDir]
    /\ listenPort = [i \in Insts |-> IF i = 1 THEN FreshPort(1) ELSE 0]
    /\ proc = [i \in Insts |-> IF i = 1 THEN "running" ELSE "none"]
    /\ listening = [i \in Insts |-> i = 1]
    /\ processState = [i \in Insts |-> "nil"]
    /\ denoExited = [i \in Insts |-> <<>>]
    /\ closed = [i \in Insts |-> FALSE]
    /\ runLock = [i \in Insts |-> 0]
    /\ lastInvoked = [i \in Insts |-> 0]
    /\ pc = [c \in Callers |-> "idle"]
    /\ target = [c \in Callers |-> 1]
    /\ event = [c \in Callers |-> GNil]
    /\ outcome = [c \in Callers |-> "none"]
    /\ result = [c \in Callers |-> GNil]
    /\ resp = [c \in Callers |-> NoResponse]
    /\ callTime = [c \in Callers |-> 0]
    /\ afterClose = [c \in Callers |-> FALSE]
    /\ netIO = [c \in Callers |-> FALSE]

\* the constructor has returned instance 1, for any source
InitInvoke == \E src \in Codes : Booted(src)

\* SpecInvoke: concurrent callers on one constructed instance, with the
\* child's death, the exit waiter and Close.
NextInvoke ==
    \/ \E how \in Terminated : ChildExit(1, how)
    \/ ExitWaiter(1)
    \/ Close(1)
    \/ \E c \in Callers, e \in Events : InvokeCall(c, 1, e)
    \/ \E c \in Callers : InvokeLock(c)
    \/ \E c \in Callers : InvokeStamp(c)
    \/ \E c \in Callers : InvokeCheck(c)
    \/ \E c \in Callers, nilCtx \in BOOLEAN : InvokeRequest(c, nilCtx)
    \/ \E c \in Callers : InvokeRecv(c, Responses)
    \/ \E c \in Callers : InvokeAbort(c)
    \/ \E c \in Callers : InvokeDone(c)

SpecInvoke == InitInvoke /\ [][NextInvoke]_vars

\* SpecClock: concurrent callers on one constructed instance while the clock
\* advances, with the child's death and the exit waiter.
NextClock ==
    \/ Tick
    \/ \E how \in Terminated : ChildExit(1, how)
    \/ ExitWaiter(1)
    \/ \E c \in Callers, e \in Events : InvokeCall(c, 1, e)
    \/ \E c \in Callers : InvokeLock(c)
    \/ \E c \in Callers : InvokeStamp(c)
    \/ \E c \in Callers : InvokeCheck(c)
    \/ \E c \in Callers, nilCtx \in BOOLEAN : InvokeRequest(c, nilCtx)
    \/ \E c \in Callers : InvokeRecv(c, Responses)
    \/ \E c \in Callers : InvokeAbort(c)
    \/ \E c \in Callers : InvokeDone(c)

SpecClock == InitInvoke /\ [][NextClock]_vars

\* SpecOne: the whole life of one instance, from the constructor call to
\* Close, with concurrent callers once the constructor has returned it.
NextOne ==
    \/ \E src \in Codes, fs \in FsOutcomes : CtorMaterialize(1, src, fs)
    \/ \E port \in FindFreePort(1), pathOk \in BOOLEAN : CtorSpawn(1, port, pathOk)
    \/ CtxCancel(1)
    \/ CtorPoll(1)
    \/ ChildListen(1)
    \/ \E how \in Terminated : ChildExit(1, how)
    \/ ExitWaiter(1)
    \/ DidExitRecv(1)
    \/ Close(1)
    \/ \E c \in Callers, e \in Events : InvokeCall(c, 1, e)
    \/ \E c \in Callers : InvokeLock(c)
    \/ \E c \in Callers : InvokeStamp(c)
    \/ \E c \in Callers : InvokeCheck(c)
    \/ \E c \in Callers, nilCtx \in BOOLEAN : InvokeRequest(c, nilCtx)
    \/ \E c \in Callers : InvokeRecv(c, Responses)
    \/ \E c \in Callers : InvokeAbort(c)
    \/ \E c \in Callers : InvokeDone(c)

SpecOne == Init /\ [][NextOne]_vars

\* SpecOneFair: SpecOne in which the exit waiter, a goroutine of its own,
\* is scheduled whenever it can run.
SpecOneFair == SpecOne /\ WF_vars(ExitWaiter(1))

\* SpecPorts: a sequence of FindFreePort calls in one process, on a machine
\* whose ports are taken and released by others.
NextPorts ==
    \/ \E first \in Ports : FpCall(first)
    \/ \E next \in Ports : FpProbe(next)
    \/ FpDone
    \/ \E p \in Ports : PortEnv(p)

SpecPorts == Init /\ [][NextPorts]_vars

\* SpecDrain: the constructor call, the child, the exit waiter and Close of
\* one instance, with what the child writes and the two log drains.
NextDrain ==
    \/ \E src \in Codes, fs \in FsOutcomes : CtorMaterialize(1, src, fs)
    \/ \E port \in FindFreePort(1), pathOk \in BOOLEAN : CtorSpawn(1, port, pathOk)
    \/ CtxCancel(1)
    \/ CtorPoll(1)
    \/ ChildListen(1)
    \/ \E how \in Terminated : ChildExit(1, how)
    \/ ExitWaiter(1)
    \/ Close(1)
    \/ \E s \in Streams, b \in Bytes : ChildWrite(s, b)
    \/ \E s \in Streams : DrainLine(s)
    \/ \E s \in Streams : DrainStop(s)

SpecDrain == Init /\ [][NextDrain]_vars

\* SpecJson: one caller on one constructed, healthy instance, over every
\* event and every response of the conversion sets.
NextJson ==
    \/ \E e \in JsonEvents : InvokeCall(1, 1, e)
    \/ InvokeLock(1)
    \/ InvokeStamp(1)
    \/ InvokeCheck(1)
    \/ \E nilCtx \in BOOLEAN : InvokeRequest(1, nilCtx)
    \/ InvokeRecv(1, JsonResponses)
    \/ InvokeAbort(1)
    \/ InvokeDone(1)

SpecJson == InitInvoke /\ [][NextJson]_vars

\* ================================================================ claims
\* a caller is between lock acquisition and return
InCall(c) == pc[c] \in {"stamp", "check", "request", "await"}

\* Invoke returned a failure
Failures == {"processExited", "requestError", "transportError", "httpError",
             "decodeError", "runtimeError", "runtimeErrorRaw"}

\* C1: at most one Invoke per instance is between lock acquisition and
\* return, the caller in that section is the one holding runLock, and a call
\* that succeeds on an identity function returns the decoded response to the
\* event it sent itself.
C1_InvocationsNeverOverlap ==
    /\ \A c1, c2 \in Callers :
          (c1 # c2 /\ InCall(c1) /\ InCall(c2)) => target[c1] # target[c2]
    /\ \A c \in Callers : InCall(c) => runLock[target[c]] = c
    /\ \A c \in Callers :
          (pc[c] = "returned" /\ outcome[c] = "ok" /\ code[target[c]] = "identity")
             => /\ resp[c] = <<StatusOK, MustJsonString(event[c])>>
                /\ result[c] = Decode(MustJsonString(event[c]))

\* one caller waits for the lock while another, with a different event, is
\* waiting for its response on the same instance
C1_Witness ==
    \E c1, c2 \in Callers :
        /\ pc[c1] = "await" /\ pc[c2] = "lock"
        /\ target[c1] = target[c2]
        /\ event[c1] # event[c2]

\* C2 (as claimed): an Invoke called after Close of its instance returns
\* ProcessExitedError.
C2_InvokeAfterCloseIsProcessExited ==
    \A c \in Callers :
        (pc[c] = "returned" /\ afterClose[c]) => outcome[c] = "processExited"

\* an instance the constructor returned and nobody closed
Live(i) == ctorResult[i] = "ok" /\ ~closed[i]

\* C3 (as claimed): no two live instances share a working directory, and
\* the directory of a live instance exists (nobody else removed it).
C3_WorkingDirectoryExclusive ==
    /\ \A i, j \in Insts : (i # j /\ Live(i) /\ Live(j)) => tempDir[i] # tempDir[j]
    /\ \A i \in Insts : Live(i) => tempDir[i] \in dirs

\* C5 (as claimed): after the constructor failed to start the engine, its
\* function directory is not on disk (unless another constructor call made
\* the same directory).
C5_SpawnFailureLeavesNoDirectory ==
    \A i \in Insts :
        (ctorResult[i] = "errSpawn" /\ \A j \in Insts \ {i} : tempDir[j] # tempDir[i])
           => tempDir[i] \notin dirs

C7_RecordedExitShortCircuits ==
    [][\A c \in Callers :
          (pc[c] = "check" /\ pc'[c] # "check" /\ processState[target[c]] # "nil")
             => (pc'[c] = "returned" /\ outcome'[c] = "processExited" /\ ~netIO'[c])
      ]_vars

\* the event is an object with a top-level `error` key
HasErrorKey(g) == g.t \in {"map", "struct"} /\ "error" \in DOMAIN g.v

\* Invoke returned what a received response was classified as
Answered(c) == pc[c] = "returned" /\ resp[c] # NoResponse

\* C4 (as claimed): on an identity function every answered Invoke succeeds
\* and returns the structure of its event.
C4_IdentityReturnsAnyEvent ==
    \A c \in Callers :
        (Answered(c) /\ code[target[c]] = "identity")
           => (outcome[c] = "ok" /\ Marshal(result[c]) = Marshal(event[c]))

\* C4 (amended): on an identity function every answered Invoke whose event
\* is not an object with a top-level `error` key succeeds and returns a
\* value with the JSON structure of its event, and one whose event is such
\* an object fails with a runtime error.
C4_IdentityReturnsEventWithoutErrorKey ==
    \A c \in Callers :
        (Answered(c) /\ code[target[c]] = "identity")
           => IF HasErrorKey(event[c])
              THEN outcome[c] \in {"runtimeError", "runtimeErrorRaw"}
              ELSE outcome[c] = "ok" /\ Marshal(result[c]) = Marshal(event[c])

\* an identity function returned an array, whose element is an object with an
\* `error` key, as sent
C4_Witness ==
    \E c \in Callers :
        /\ Answered(c) /\ code[target[c]] = "identity"
        /\ event[c] = GSlice(<<GMap([error |-> GNil])>>)
        /\ outcome[c] = "ok"
        /\ result[c] = GSlice(<<GMap([error |-> GNil])>>)

\* the decoded body is an object with an `error` key
BodyHasErrorKey(body) == body.t = "obj" /\ "error" \in DOMAIN body.v

\* what the claim says of a response, given the statuses that count as success
ClassifiedBy(c, success) ==
    IF resp[c][1] \notin success
    THEN outcome[c] = "httpError" /\ result[c] = resp[c][2]
    ELSE (resp[c][2] # NotJson /\ ~BodyHasErrorKey(resp[c][2]))
            => (outcome[c] = "ok" /\ result[c] = Decode(resp[c][2]))

\* C8 (as claimed): the response is classified by status class: non-2xx is
\* the HTTP error with the raw body, 2xx without an `error` key is success
\* with the decoded value.
C8_ClassifiedByStatusClass ==
    \A c \in Callers : Answered(c) => ClassifiedBy(c, 200..299)

\* C8 (amended): the response is classified by status 200: every other
\* status, 201 and 204 included, is the HTTP error with the raw body; 200
\* with a body that decodes to a value without an `error` key is success
\* with the decoded value.
C8_ClassifiedByStatusOK ==
    \A c \in Callers : Answered(c) => ClassifiedBy(c, {StatusOK})

\* a 201 answer was returned as an HTTP error, and carries its body
C8_Witness ==
    \E c \in Callers :
        /\ Answered(c) /\ resp[c] = <<201, JObj([name |-> JStr("Pete")])>>
        /\ outcome[c] = "httpError" /\ result[c] = JObj([name |-> JStr("Pete")])

\* a step of some caller's Invoke
InvokeStep(c) == pc[c] # "idle" /\ pc[c] # "returned" /\ pc'[c] # pc[c]

\* C9: no step of an Invoke touches the child, the directory or any other
\* field of the instance but lastInvoked and the lock; every failing return
\* releases the lock; and the lock is only ever held by a caller inside its
\* call, so a caller waiting for it can take it once that call has returned.
C9_FailedInvokeKeepsInstance ==
    /\ [][\A c \in Callers :
             /\ InvokeStep(c) => InvokeVarsKept' = InvokeVarsKept
             /\ (InvokeStep(c) /\ pc'[c] = "returned" /\ outcome'[c] \in Failures)
                   => runLock'[target[c]] = 0
         ]_vars
    /\ [](\A i \in Insts :
             runLock[i] # 0 => (InCall(runLock[i]) /\ target[runLock[i]] = i))

\* a caller holds the lock of a running instance on which another caller's
\* Invoke has just failed in transport
C9_Witness ==
    \E c1, c2 \in Callers :
        /\ pc[c1] = "returned" /\ outcome[c1] = "transportError"
        /\ InCall(c2) /\ target[c2] = target[c1]
        /\ proc[target[c1]] = "running"
        /\ tempDir[target[c1]] \in dirs

\* C10: lastInvoked never decreases, changes only in a step of the caller
\* holding the lock, is set to the current time by the first step after the
\* lock is taken, and every return, failing or not, comes after that step.
C10_LastInvokedMonotonic ==
    [][/\ \A i \in Insts :
             /\ lastInvoked'[i] >= lastInvoked[i]
             /\ lastInvoked'[i] # lastInvoked[i]
                   => /\ runLock[i] # 0 /\ runLock'[i] = runLock[i]
                      /\ pc[runLock[i]] = "stamp"
       /\ \A c \in Callers :
             /\ (pc[c] = "stamp" /\ pc'[c] # "stamp")
                   => (pc'[c] = "check" /\ lastInvoked'[target[c]] = now)
             /\ (pc[c] = "lock" /\ pc'[c] # "lock") => pc'[c] = "stamp"
             /\ (pc'[c] = "returned" /\ pc[c] # "returned")
                   => pc[c] \in {"check", "request", "await"}
      ]_vars

\* an attempt that failed because the process had exited has moved
\* lastInvoked forward to the current time
C10_Witness ==
    \E c \in Callers :
        /\ pc[c] = "returned" /\ outcome[c] = "processExited"
        /\ lastInvoked[target[c]] = now
        /\ now = MaxTime

\* no other constructor call has been given the directory of instance i
SoleOwner(i) == \A j \in Insts : j # i => tempDir[j] # tempDir[i]

C12_OneChildPerInstance ==
    /\ [](\A i \in Insts : spawns[i] <= 1 /\ (proc[i] # "none" <=> spawns[i] = 1))
    /\ [][/\ \A i \in Insts :
              /\ spawns'[i] # spawns[i]
                    => (ctorPc[i] = "materialized" /\ proc[i] = "none")
              /\ proc[i] \in Terminated => proc'[i] = proc[i]
        /\ \A c \in Callers :
              InvokeStep(c) => (spawns' = spawns /\ proc' = proc)
       ]_vars

\* two callers have each had an answer from the one child the constructor
\* started
C12_Witness ==
    \E c1, c2 \in Callers :
        /\ c1 # c2
        /\ pc[c1] = "returned" /\ outcome[c1] = "ok"
        /\ pc[c2] = "returned" /\ outcome[c2] = "ok"
        /\ spawns[target[c1]] = 1 /\ proc[target[c1]] = "running"

\* the step in which the constructor call of instance i leaves waitLoop
LeavesWaitLoop(i) == ctorPc[i] = "wait" /\ ctorPc'[i] = "done"

\* C13 (as claimed): an iteration of the readiness loop looks at the
\* cancellation first: with the context cancelled and the child's exit
\* recorded the constructor fails with ctx.Err(), never with "exited on
\* boot"; and it succeeds (dials) only when neither holds.
C13_CancellationCheckedFirst ==
    [][\A i \in Insts :
          LeavesWaitLoop(i) =>
             /\ (ctxDone[i] /\ denoExited[i] # <<>>) => ctorResult'[i] = "errCtx"
             /\ ctorResult'[i] = "ok" => (~ctxDone[i] /\ denoExited[i] = <<>>)
      ]_vars

\* C13 (amended): an iteration that finds the context cancelled or the
\* child's exit recorded fails without dialling, with the failure of a
\* condition that holds: ctx.Err() only when the context is cancelled,
\* "exited on boot" only when the exit is recorded, either one when both
\* hold; it succeeds only when neither holds and the dial connects.
C13_SelectTakesAReadyCase ==
    [][\A i \in Insts :
          LeavesWaitLoop(i) =>
             /\ ctorResult'[i] \in {"errCtx", "errExit", "ok"}
             /\ ctorResult'[i] = "errCtx" => ctxDone[i]
             /\ ctorResult'[i] = "errExit" => denoExited[i] # <<>>
             /\ ctorResult'[i] = "ok"
                   => (~ctxDone[i] /\ denoExited[i] = <<>> /\ DialOk(i))
      ]_vars

\* the constructor has failed with "exited on boot" although its context
\* was cancelled at the time
C13_Witness ==
    \E i \in Insts : ctorResult[i] = "errExit" /\ ctxDone[i]

\* C14 (as claimed): a call of the allocator never exceeds its budget of
\* iterations, and when it returns -1 it has examined exactly 1000 ports.
C14_SentinelAfterBudget ==
    /\ fpPc = "loop" => (iterations <= MaxIterations /\ attempts = iterations)
    /\ (fpPc = "returned" /\ fpResult = NoPort) => attempts = MaxIterations

\* C14 (amended): a call of the allocator never exceeds its budget of
\* iterations (every trip through the loop returns or counts one up), and
\* when it returns -1 it has examined exactly 1001 ports: the first one and
\* 1000 retries.
C14_SentinelAfterBudgetPlusOne ==
    /\ fpPc = "loop" => (iterations <= MaxIterations /\ attempts = iterations)
    /\ (fpPc = "returned" /\ fpResult = NoPort)
          => (attempts = MaxIterations + 1 /\ iterations = MaxIterations + 1)
    /\ (fpPc = "returned" /\ fpResult # NoPort) => attempts <= MaxIterations + 1

\* a call has returned -1 with every port of the window busy or handed out
C14_Witness ==
    /\ fpPc = "returned" /\ fpResult = NoPort
    /\ handedOutPorts # {} /\ busyPorts # {}
    /\ handedOutPorts \cup busyPorts = Ports

\* C15 (as claimed): a constructor call to which the allocator returned -1
\* starts no child and returns no instance.
C15_SentinelPortFailsCreation ==
    \A i \in Insts :
        listenPort[i] = NoPort => (spawns[i] = 0 /\ ctorResult[i] # "ok")

\* C16: every port a call of the allocator returns lies in the window above
\* the base, could be bound when it was probed, and was returned by no
\* earlier call; the record of handed-out ports only grows and holds every
\* port returned.
C16_PortsReturnedOnce ==
    /\ [](/\ (fpPc = "returned" /\ fpResult # NoPort)
              => /\ fpResult \in Ports
                 /\ fpResult \notin returnedPorts
                 /\ fpResult \in handedOutPorts
          /\ returnedPorts \subseteq handedOutPorts)
    /\ [][/\ handedOutPorts \subseteq handedOutPorts'
          /\ (fpPc = "loop" /\ fpPc' = "returned" /\ fpResult' # NoPort)
                => (fpResult' = fpPort /\ fpPort \notin busyPorts)
       ]_vars

\* a later call has returned a second port after passing over ports that
\* were handed out or busy
C16_Witness ==
    /\ fpPc = "returned" /\ fpResult # NoPort
    /\ returnedPorts # {}
    /\ iterations > 1

\* the exit waiter of instance i has something to send
WaiterPending(i) == proc[i] \in Terminated /\ processState[i] = "nil"

\* C17: the exit channel takes a value only from the exit waiter, once in
\* the life of the instance and into an empty buffer; the waiter's send is
\* never blocked; and once the child has terminated the waiter finishes,
\* whether or not the value is ever received.
C17_ExitWaiterNeverBlocks ==
    /\ [](\A i \in Insts :
             /\ Len(denoExited[i]) <= 1
             /\ WaiterPending(i) => ENABLED ExitWaiter(i))
    /\ [][\A i \in Insts :
             /\ Len(denoExited'[i]) > Len(denoExited[i])
                   => /\ WaiterPending(i)
                      /\ processState'[i] # "nil"
                      /\ denoExited[i] = <<>>
             /\ processState[i] # "nil" => processState'[i] = processState[i]
       ]_vars
    /\ \A i \in {1} : (proc[i] \in Terminated) ~> (processState[i] # "nil")

\* the waiter has finished and its value sits in the channel of an instance
\* the constructor returned: nobody has received it
C17_Witness ==
    \E i \in Insts :
        /\ ctorResult[i] = "ok"
        /\ processState[i] # "nil"
        /\ denoExited[i] # <<>>

\* the lines of a text: its pieces that end with the delimiter, in order
RECURSIVE Lines(_)
Lines(txt) == IF HasLine(txt) THEN <<ReadString(txt)>> \o Lines(AfterLine(txt)) ELSE <<>>

\* seq is txt's first lines
FirstLinesOf(seq, txt) ==
    Len(seq) <= Len(Lines(txt)) /\ seq = SubSeq(Lines(txt), 1, Len(seq))

\* C18 (as claimed): what a drain passes to the callback is always the first
\* lines of its stream, delimiter included; a drain that has stopped has
\* passed on every line the child wrote to the stream; and once the child
\* has terminated a drain that still reads can go on, whatever the other
\* drain does.
C18_DrainForwardsEveryLine ==
    \A s \in Streams :
        /\ FirstLinesOf(sink[s], wrote[s])
        /\ drainPc[s] = "done" => sink[s] = Lines(wrote[s])
        /\ (proc[1] \in Terminated /\ drainPc[s] = "read")
              => (ENABLED DrainLine(s) \/ ENABLED DrainStop(s))

\* C19: an Invoke that received status 200 with a body that decodes to an
\* object with an `error` key returns a runtime error and no result: with
\* the message and the stack of the nested value when that unmarshals into
\* the structured error (absent fields are empty), and otherwise with the
\* nested value itself, as its JSON text.
C19_ErrorKeyIsRuntimeError ==
    \A c \in Callers :
        (Answered(c) /\ resp[c][1] = StatusOK /\ BodyHasErrorKey(resp[c][2]))
           => LET e == resp[c][2].v["error"] IN
              /\ outcome[c] \in {"runtimeError", "runtimeErrorRaw"}
              /\ IF UnmarshalOk(e)
                 THEN /\ outcome[c] = "runtimeError"
                      /\ result[c] = [message |-> JsField(e, "message"),
                                      stack |-> JsField(e, "stack")]
                 ELSE /\ outcome[c] = "runtimeErrorRaw"
                      /\ result[c] = e

\* a 200 answer whose `error` value has a message that is no string came
\* back as a runtime error carrying that value as text
C19_Witness ==
    \E c \in Callers :
        /\ Answered(c)
        /\ resp[c] = <<StatusOK, JObj([error |-> JObj([message |-> JNum(1)])])>>
        /\ outcome[c] = "runtimeErrorRaw"
        /\ result[c] = JObj([message |-> JNum(1)])

\* C20: Close of a returned instance can run whatever the state of runLock
\* and of the callers, and its step leaves the lock and every caller as they
\* were; a caller inside Invoke can always take its next step, also after
\* Close has killed the child under it, so the lock is always released.
C20_CloseNeverTakesLock ==
    /\ [](\A i \in Insts : ctorResult[i] = "ok" => ENABLED Close(i))
    /\ [](\A c \in Callers :
             InCall(c) => \/ ENABLED InvokeStamp(c)
                          \/ ENABLED InvokeCheck(c)
                          \/ ENABLED InvokeRequest(c, FALSE)
                          \/ ENABLED InvokeAbort(c))
    /\ [][\A i \in Insts : Close(i) => (runLock' = runLock /\ callVars' = callVars)]_vars

\* Close has killed the child while one caller's request was in flight and
\* another caller waited for the lock
C20_Witness ==
    \E c1, c2 \in Callers :
        /\ pc[c1] = "await" /\ ~afterClose[c1]
        /\ pc[c2] = "lock" /\ target[c2] = target[c1]
        /\ closed[target[c1]] /\ proc[target[c1]] = "signaled"
        /\ runLock[target[c1]] = c1

====
